---- MODULE Spec2Model ----
(***************************************************************************)
(* Time-series-momentum pipeline of hw1.py and the src package.           *)
(*                                                                         *)
(* The seven pipeline functions are pure Python functions; hw1.run_pipeline*)
(* calls them in sequence and hw1.main wraps run_pipeline with argument    *)
(* parsing and printing.  A state of the model is one invocation in        *)
(* progress: either a direct call of one pipeline function (as the test    *)
(* fixtures make), a call of run_pipeline, or a run of main.               *)
(*                                                                         *)
(* Numbers are exact rationals; a table cell is a rational or NaN.         *)
(***************************************************************************)
EXTENDS Integers, Sequences, FiniteSets, TLC

VARIABLES pc, entry, call, outcome, locals, step, started, stdout

vars == <<pc, entry, call, outcome, locals, step, started, stdout>>

(***************************************************************************)
(* Bounds of the model.                                                    *)
(***************************************************************************)
MaxRows == 3
MaxPrice == 2
MaxLookback == 3

(***************************************************************************)
(* Program constants.                                                      *)
(***************************************************************************)
DefaultLookback == 252
TradingDays == 252
DefaultDataPath == "data/price_data.csv"
Assets == <<"SP500", "NASDAQ">>
AssetSet == {Assets[i] : i \in 1..Len(Assets)}

(***************************************************************************)
(* Values: rationals in lowest terms, NaN, tables, series, None.           *)
(***************************************************************************)
Abs(x) == IF x < 0 THEN 0 - x ELSE x

RECURSIVE GCD(_, _)
GCD(a, b) == IF b = 0 THEN a ELSE GCD(b, a % b)

Rat(n, d) ==
    LET s == IF d < 0 THEN 0 - 1 ELSE 1
        g == GCD(Abs(n), Abs(d))
    IN  [nan |-> FALSE, n |-> (s * n) \div g, d |-> (s * d) \div g]

NaN == [nan |-> TRUE, n |-> 0, d |-> 1]

None == [type |-> "NoneType"]

Index(n) == [i \in 1..n |-> i]

DataFrame(n, cols, data) ==
    [type |-> "DataFrame", index |-> Index(n), columns |-> cols, data |-> data]

Series(n, name, data) ==
    [type |-> "Series", index |-> Index(n), name |-> name, data |-> data]

(***************************************************************************)
(* Outcome of a call: it returns a value or raises an exception.           *)
(***************************************************************************)
Return(v) == [kind |-> "return", exc |-> "", msg |-> "", value |-> v]

Raise(e, m) == [kind |-> "raise", exc |-> e, msg |-> m, value |-> None]

NoOutcome == [kind |-> "none", exc |-> "", msg |-> "", value |-> None]

(***************************************************************************)
(* The seven pipeline functions, as the package defines them.              *)
(***************************************************************************)
read_data(filepath) == Raise("NotImplementedError", "Implement read_data")

calculate_returns(prices) ==
    Raise("NotImplementedError", "Implement calculate_returns")

calculate_momentum(daily_returns, lookback_days) ==
    Raise("NotImplementedError", "Implement calculate_momentum")

generate_signals(momentum) ==
    Raise("NotImplementedError", "Implement generate_signals")

calculate_volatility(daily_returns, vol_lookback) ==
    Raise("NotImplementedError", "Implement calculate_volatility")

calculate_strategy_returns(signals, daily_returns, volatility, target_vol) ==
    Raise("NotImplementedError", "Implement calculate_strategy_returns")

calculate_performance(daily_returns) ==
    Raise("NotImplementedError", "Implement calculate_performance")

Apply(fn, args) ==
    CASE fn = "read_data" -> read_data(args[1])
      [] fn = "calculate_returns" -> calculate_returns(args[1])
      [] fn = "calculate_momentum" -> calculate_momentum(args[1], args[2])
      [] fn = "generate_signals" -> generate_signals(args[1])
      [] fn = "calculate_volatility" -> calculate_volatility(args[1], args[2])
      [] fn = "calculate_strategy_returns" ->
            calculate_strategy_returns(args[1], args[2], args[3], args[4])
      [] fn = "calculate_performance" -> calculate_performance(args[1])

(***************************************************************************)
(* Inputs of the direct calls.                                             *)
(***************************************************************************)
Paths == {DefaultDataPath, "data/other.csv"}

Lookbacks == (0 - 1)..MaxLookback

PriceVals == {Rat(p, 1) : p \in 1..MaxPrice}

RetVals == {Rat(0 - 1, 2), Rat(1, 2)}

MomVals == {NaN, Rat(0 - 1, 2), Rat(0, 1), Rat(1, 2)}

SignalVals == {Rat(0 - 1, 1), Rat(0, 1), Rat(1, 1)}

PerfVals == {NaN, Rat(0 - 1, 100), Rat(0, 1), Rat(1, 100)}

TargetVol == Rat(1, 10)

TargetVols == {TargetVol, Rat(1, 5)}

AssetPos(a) == CHOOSE i \in 1..Len(Assets) : Assets[i] = a

Frames(n, vals) ==
    {DataFrame(n, Assets, d) : d \in [AssetSet -> [1..n -> vals]]}

\* Price tables: positive prices, no missing cell.
PriceTables == UNION {Frames(n, PriceVals) : n \in 1..MaxRows}

\* Return tables: the first row is NaN, as a table of returns has it.
ReturnFrames(n) ==
    {DataFrame(n, Assets,
               [a \in AssetSet |-> [t \in 1..n |-> IF t = 1 THEN NaN ELSE d[a][t]]]) :
        d \in [AssetSet -> [2..n -> RetVals]]}

ReturnTables == UNION {ReturnFrames(n) : n \in 1..MaxRows}

\* Momentum tables: NaN over the first k rows, then one value per asset.
MomentumFrames(n) ==
    {DataFrame(n, Assets,
               [a \in AssetSet |-> [t \in 1..n |-> IF t <= k THEN NaN ELSE m[a]]]) :
        k \in 0..n, m \in [AssetSet -> MomVals]}

MomentumTables == UNION {MomentumFrames(n) : n \in 1..MaxRows}

\* Signal tables: one position per asset, held over all rows.
SignalFrames(n) ==
    {DataFrame(n, Assets, [a \in AssetSet |-> [t \in 1..n |-> s[a]]]) :
        s \in [AssetSet -> SignalVals]}

\* Volatility tables: NaN until a first valid row that differs per asset, then
\* v * t / 10 at row t (v = 0: zero volatility).
VolFrames(n) ==
    {DataFrame(n, Assets,
               [a \in AssetSet |->
                   [t \in 1..n |-> IF t < k + AssetPos(a) - 1 THEN NaN ELSE Rat(v * t, 10)]]) :
        k \in 1..(n + 1), v \in 0..1}

StrategyInputs ==
    UNION {{<<s, r, v, tv>> : s \in SignalFrames(n), r \in ReturnFrames(n),
                              v \in VolFrames(n), tv \in TargetVols} : n \in 1..MaxRows}

PerfSeries ==
    UNION {{Series(n, "TSMOM", d) : d \in [1..n -> PerfVals]} : n \in 1..MaxRows}

(***************************************************************************)
(* Initial state: nothing has been invoked.                                *)
(***************************************************************************)
NoCall == [fn |-> "none", args |-> <<>>]

NoLocals == [v \in {} |-> None]

Init ==
    /\ pc = "idle"
    /\ entry = "none"
    /\ call = NoCall
    /\ outcome = NoOutcome
    /\ locals = NoLocals
    /\ step = 0
    /\ started = <<>>
    /\ stdout = <<>>

(***************************************************************************)
(* Direct calls of the pipeline functions, as the test fixtures make them. *)
(***************************************************************************)
Call(fn, args) ==
    /\ pc' = "done"
    /\ entry' = "function"
    /\ call' = [fn |-> fn, args |-> args]
    /\ outcome' = Apply(fn, args)
    /\ UNCHANGED <<locals, step, started, stdout>>

Call_read_data ==
    /\ pc = "idle"
    /\ \E f \in Paths : Call("read_data", <<f>>)

Call_calculate_returns ==
    /\ pc = "idle"
    /\ \E p \in PriceTables : Call("calculate_returns", <<p>>)

Call_calculate_momentum ==
    /\ pc = "idle"
    /\ \E r \in ReturnTables, L \in Lookbacks : Call("calculate_momentum", <<r, L>>)

Call_generate_signals ==
    /\ pc = "idle"
    /\ \E m \in MomentumTables : Call("generate_signals", <<m>>)

Call_calculate_volatility ==
    /\ pc = "idle"
    /\ \E r \in ReturnTables, W \in Lookbacks : Call("calculate_volatility", <<r, W>>)

Call_calculate_strategy_returns ==
    /\ pc = "idle"
    /\ \E a \in StrategyInputs : Call("calculate_strategy_returns", a)

Call_calculate_performance ==
    /\ pc = "idle"
    /\ \E s \in PerfSeries : Call("calculate_performance", <<s>>)

(***************************************************************************)
(* run_pipeline: one statement per step.  A statement calls a stage with   *)
(* arguments read from the local variables and binds the result; an        *)
(* exception raised by the call leaves run_pipeline at once.               *)
(***************************************************************************)
Var(x) == [kind |-> "var", name |-> x, col |-> "", lit |-> None]

Col(x, c) == [kind |-> "col", name |-> x, col |-> c, lit |-> None]

Lit(v) == [kind |-> "lit", name |-> "", col |-> "", lit |-> v]

\* run_pipeline with the volatility computed before the signals.
StmtsVolatilityFirst ==
    << [target |-> "daily_prices", fn |-> "read_data",
        args |-> <<Var("data_path")>>],
       [target |-> "daily_returns", fn |-> "calculate_returns",
        args |-> <<Var("daily_prices")>>],
       [target |-> "momentum", fn |-> "calculate_momentum",
        args |-> <<Var("daily_returns"), Var("lookback_days")>>],
       [target |-> "volatility", fn |-> "calculate_volatility",
        args |-> <<Var("daily_returns"), Var("lookback_days")>>],
       [target |-> "signals", fn |-> "generate_signals",
        args |-> <<Var("momentum")>>],
       [target |-> "strategy_returns", fn |-> "calculate_strategy_returns",
        args |-> <<Var("signals"), Var("daily_returns"), Var("volatility"),
                   Lit(TargetVol)>>],
       [target |-> "performance", fn |-> "calculate_performance",
        args |-> <<Col("strategy_returns", "TSMOM")>>] >>

\* run_pipeline with calculate_volatility called without vol_lookback, which
\* then takes its default.
StmtsDefaultWindow ==
    << [target |-> "daily_prices", fn |-> "read_data",
        args |-> <<Var("data_path")>>],
       [target |-> "daily_returns", fn |-> "calculate_returns",
        args |-> <<Var("daily_prices")>>],
       [target |-> "momentum", fn |-> "calculate_momentum",
        args |-> <<Var("daily_returns"), Var("lookback_days")>>],
       [target |-> "signals", fn |-> "generate_signals",
        args |-> <<Var("momentum")>>],
       [target |-> "volatility", fn |-> "calculate_volatility",
        args |-> <<Var("daily_returns"), Lit(DefaultLookback)>>],
       [target |-> "strategy_returns", fn |-> "calculate_strategy_returns",
        args |-> <<Var("signals"), Var("daily_returns"), Var("volatility"),
                   Lit(TargetVol)>>],
       [target |-> "performance", fn |-> "calculate_performance",
        args |-> <<Col("strategy_returns", "TSMOM")>>] >>

Stmts ==
    << [target |-> "daily_prices", fn |-> "read_data",
        args |-> <<Var("data_path")>>],
       [target |-> "daily_returns", fn |-> "calculate_returns",
        args |-> <<Var("daily_prices")>>],
       [target |-> "momentum", fn |-> "calculate_momentum",
        args |-> <<Var("daily_returns"), Var("lookback_days")>>],
       [target |-> "signals", fn |-> "generate_signals",
        args |-> <<Var("momentum")>>],
       [target |-> "volatility", fn |-> "calculate_volatility",
        args |-> <<Var("daily_returns"), Var("lookback_days")>>],
       [target |-> "strategy_returns", fn |-> "calculate_strategy_returns",
        args |-> <<Var("signals"), Var("daily_returns"), Var("volatility"),
                   Lit(TargetVol)>>],
       [target |-> "performance", fn |-> "calculate_performance",
        args |-> <<Col("strategy_returns", "TSMOM")>>] >>

\* return performance
ReturnVar == "performance"

\* df[col]: the column as a series, KeyError when the table has no such column.
GetItem(df, c) ==
    IF c \in DOMAIN df.data
    THEN Return(Series(Len(df.index), c, df.data[c]))
    ELSE Raise("KeyError", c)

EvalArg(a, env) ==
    CASE a.kind = "var" -> Return(env[a.name])
      [] a.kind = "lit" -> Return(a.lit)
      [] a.kind = "col" -> GetItem(env[a.name], a.col)

Extend(f, k, v) == [x \in DOMAIN f \cup {k} |-> IF x = k THEN v ELSE f[x]]

Min(S) == CHOOSE x \in S : \A y \in S : x <= y

Invoke(who, lookback_days, data_path) ==
    /\ pc = "idle"
    /\ pc' = "run"
    /\ entry' = who
    /\ call' = [fn |-> who, args |-> <<lookback_days, data_path>>]
    /\ locals' = [lookback_days |-> lookback_days, data_path |-> data_path]
    /\ step' = 1
    /\ UNCHANGED <<outcome, started>>

\* A caller invokes run_pipeline(lookback_days, data_path); both have defaults.
RunPipeline ==
    \E L \in Lookbacks \cup {DefaultLookback}, f \in Paths :
        /\ Invoke("run_pipeline", L, f)
        /\ UNCHANGED stdout

RunPipelineStep ==
    /\ pc = "run"
    /\ LET stmt == Stmts[step]
           evals == [i \in 1..Len(stmt.args) |-> EvalArg(stmt.args[i], locals)]
           bad == {i \in 1..Len(stmt.args) : evals[i].kind = "raise"}
           argv == [i \in 1..Len(stmt.args) |-> evals[i].value]
           reads == {stmt.args[i].name : i \in {j \in 1..Len(stmt.args) : stmt.args[j].kind # "lit"}}
           out == Apply(stmt.fn, argv)
           bound == Extend(locals, stmt.target, out.value)
       IN  IF bad # {}
           THEN /\ outcome' = evals[Min(bad)]
                /\ pc' = "finished"
                /\ UNCHANGED <<locals, step, started>>
           ELSE /\ started' = Append(started, [fn |-> stmt.fn, target |-> stmt.target,
                                            reads |-> reads, args |-> argv, out |-> out])
                /\ IF out.kind = "raise"
                   THEN /\ outcome' = out
                        /\ pc' = "finished"
                        /\ UNCHANGED <<locals, step>>
                   ELSE /\ locals' = bound
                        /\ IF step = Len(Stmts)
                           THEN /\ outcome' = Return(bound[ReturnVar])
                                /\ pc' = "finished"
                                /\ UNCHANGED step
                           ELSE /\ step' = step + 1
                                /\ UNCHANGED <<pc, outcome>>
    /\ UNCHANGED <<entry, call, stdout>>

(***************************************************************************)
(* main: parse the arguments, print the header, call run_pipeline, print   *)
(* the metrics.                                                            *)
(***************************************************************************)
Line(text, value) == [text |-> text, value |-> value]

\* f"{x:>10.4f}": x rounded to four decimals.
Round4(x) ==
    IF x.nan THEN x
    ELSE LET q == (2 * 10000 * Abs(x.n) + x.d) \div (2 * x.d)
         IN  Rat((IF x.n < 0 THEN 0 - q ELSE q), 10000)

Metric(performance, key) ==
    IF key \in DOMAIN performance.items
    THEN Return(Round4(performance.items[key]))
    ELSE Raise("KeyError", key)

Main ==
    \E L \in Lookbacks \cup {DefaultLookback}, f \in Paths :
        /\ Invoke("main", L, f)
        /\ stdout' = <<Line("Running Time Series Momentum Strategy (lookback days)", Rat(L, 1)),
                       Line("============", NaN)>>

\* main with the exception of run_pipeline caught and reported.
MainFinishCatches ==
    /\ pc = "finished"
    /\ entry = "main"
    /\ pc' = "exit"
    /\ outcome' = Return(None)
    /\ stdout' = IF outcome.kind = "raise"
                 THEN Append(stdout, Line("Error", NaN))
                 ELSE stdout
    /\ UNCHANGED <<entry, call, locals, step, started>>

MainFinish ==
    /\ pc = "finished"
    /\ entry = "main"
    /\ pc' = "exit"
    /\ LET ar == Metric(outcome.value, "annualized_return")
           av == Metric(outcome.value, "annualized_volatility")
           sr == Metric(outcome.value, "sharpe_ratio")
       IN  IF outcome.kind = "raise"
           THEN UNCHANGED <<outcome, stdout>>
           ELSE IF ar.kind = "raise"
           THEN /\ outcome' = ar
                /\ stdout' = Append(stdout, Line("Performance Metrics (TSMOM Portfolio):", NaN))
           ELSE IF av.kind = "raise"
           THEN /\ outcome' = av
                /\ stdout' = stdout \o <<Line("Performance Metrics (TSMOM Portfolio):", NaN),
                                         Line("Annualized Return", ar.value)>>
           ELSE IF sr.kind = "raise"
           THEN /\ outcome' = sr
                /\ stdout' = stdout \o <<Line("Performance Metrics (TSMOM Portfolio):", NaN),
                                         Line("Annualized Return", ar.value),
                                         Line("Annualized Volatility", av.value)>>
           ELSE /\ outcome' = Return(None)
                /\ stdout' = stdout \o <<Line("Performance Metrics (TSMOM Portfolio):", NaN),
                                         Line("Annualized Return", ar.value),
                                         Line("Annualized Volatility", av.value),
                                         Line("Sharpe Ratio", sr.value)>>
    /\ UNCHANGED <<entry, call, locals, step, started>>

Next ==
    \/ Call_read_data
    \/ Call_calculate_returns
    \/ Call_calculate_momentum
    \/ Call_generate_signals
    \/ Call_calculate_volatility
    \/ Call_calculate_strategy_returns
    \/ Call_calculate_performance
    \/ RunPipeline
    \/ RunPipelineStep
    \/ Main
    \/ MainFinish

Spec == Init /\ [][Next]_vars

(***************************************************************************)
(* Arithmetic on cells, and the formulas of the docstrings, used to state  *)
(* what the functions are documented to return.  Row t of the source       *)
(* (counted from 0) is row t + 1 here.                                     *)
(***************************************************************************)
One == Rat(1, 1)

Zero == Rat(0, 1)

RAdd(x, y) == Rat(x.n * y.d + y.n * x.d, x.d * y.d)

RSub(x, y) == Rat(x.n * y.d - y.n * x.d, x.d * y.d)

RMul(x, y) == Rat(x.n * y.n, x.d * y.d)

RDiv(x, y) == Rat(x.n * y.d, x.d * y.n)

Rows(df) == Len(df.index)

Done(fn) == pc = "done" /\ call.fn = fn

ValidCall ==
    CASE call.fn = "read_data" -> call.args[1] = DefaultDataPath
      [] call.fn \in {"calculate_momentum", "calculate_volatility"} -> call.args[2] >= 1
      [] OTHER -> TRUE

DocumentedType(fn) == IF fn = "calculate_performance" THEN "dict" ELSE "DataFrame"

\* r_t = P_t / P_{t-1} - 1, NaN in the first row.
ExpectedReturn(prices, a, t) ==
    IF t = 1 THEN NaN
    ELSE RSub(RDiv(prices.data[a][t], prices.data[a][t - 1]), One)

RECURSIVE Compound(_, _, _)
Compound(col, lo, hi) ==
    IF lo > hi THEN One ELSE RMul(RAdd(One, col[lo]), Compound(col, lo + 1, hi))

\* (1 + r_{t-L}) * ... * (1 + r_{t-1}) - 1, NaN unless rows t-L .. t-1 all
\* exist and hold a return.
ExpectedMomentum(daily_returns, L, a, t) ==
    LET col == daily_returns.data[a]
    IN  IF t - L < 1 \/ \E k \in (t - L)..(t - 1) : col[k].nan
        THEN NaN
        ELSE RSub(Compound(col, t - L, t - 1), One)

\* +1 if momentum > 0, -1 if momentum < 0, 0 if momentum is 0 or NaN.
ExpectedSignal(m) ==
    IF m.nan \/ m.n = 0 THEN Zero
    ELSE IF m.n > 0 THEN One ELSE Rat(0 - 1, 1)

\* The previous row's volatility is present and not zero.
VolatilityUsable(volatility, a, t) ==
    t > 1 /\ (volatility.data[a][t - 1].nan \/ volatility.data[a][t - 1].n # 0)

\* signal_t * (target_vol / vol_{t-1}) * r_t, NaN when a component is NaN.
ExpectedStrategyReturn(signals, daily_returns, volatility, target_vol, a, t) ==
    IF t = 1 THEN NaN
    ELSE IF signals.data[a][t].nan \/ volatility.data[a][t - 1].nan
            \/ daily_returns.data[a][t].nan
    THEN NaN
    ELSE RMul(RMul(signals.data[a][t], RDiv(target_vol, volatility.data[a][t - 1])),
              daily_returns.data[a][t])

RECURSIVE RSum(_, _, _)
RSum(col, lo, hi) == IF lo > hi THEN Zero ELSE RAdd(col[lo], RSum(col, lo + 1, hi))

RMean(col, lo, hi) == RDiv(RSum(col, lo, hi), Rat(hi - lo + 1, 1))

\* Sample variance (divisor N - 1) of col[lo..hi], hi > lo.
SampleVar(col, lo, hi) ==
    LET m == RMean(col, lo, hi)
        dev == [k \in lo..hi |-> RMul(RSub(col[k], m), RSub(col[k], m))]
    IN  RDiv(RSum(dev, lo, hi), Rat(hi - lo, 1))

\* x = sqrt(v * TradingDays): x is not negative and x * x = v * TradingDays.
IsAnnualizedRoot(x, v) ==
    ~x.nan /\ x.n >= 0 /\ RMul(x, x) = RMul(v, Rat(TradingDays, 1))

\* The returns of rows t-W+1 .. t that exist and are not NaN.
Observed(col, W, t) == {k \in (t - W + 1)..t : k >= 1 /\ ~col[k].nan}

DropNa(series) == SelectSeq(series.data, LAMBDA x : ~x.nan)

PerformanceKeys == {"annualized_return", "annualized_volatility", "sharpe_ratio"}

ShapePreserving ==
    {"calculate_returns", "calculate_momentum", "generate_signals", "calculate_volatility"}

(***************************************************************************)
(* Claims.                                                                 *)
(***************************************************************************)

\* C1: called on valid input, each of the seven pipeline functions returns a
\* value of its documented type and does not raise NotImplementedError.
C1_ReturnsDocumentedType ==
    (pc = "done" /\ ValidCall) =>
        /\ outcome.exc # "NotImplementedError"
        /\ outcome.kind = "return"
        /\ outcome.value.type = DocumentedType(call.fn)

\* C2: for every asset and every row after the first, calculate_strategy_returns
\* yields signal[t] * (target_vol / volatility[t-1]) * return[t], with the
\* volatility of the previous row; the cell is NaN (never zero-filled) when
\* signal[t], volatility[t-1] or return[t] is missing, and in the first row.
C2_StrategyReturnFormula ==
    Done("calculate_strategy_returns") =>
        /\ outcome.kind = "return"
        /\ \A a \in AssetSet : \A t \in 1..Rows(call.args[2]) :
              (t = 1 \/ VolatilityUsable(call.args[3], a, t)) =>
                  outcome.value.data[a][t] =
                      ExpectedStrategyReturn(call.args[1], call.args[2], call.args[3],
                                             call.args[4], a, t)

\* C3: for every positive lookback L, calculate_momentum yields the product of
\* (1 + return[k]) over k = t-L .. t-1, minus 1, and NaN whenever that window
\* is not inside the history: the first L rows are NaN, and the whole column
\* when L is at least the number of rows.
C3_MomentumFormula ==
    (Done("calculate_momentum") /\ call.args[2] >= 1) =>
        /\ outcome.kind = "return"
        /\ \A a \in AssetSet : \A t \in 1..Rows(call.args[1]) :
              /\ outcome.value.data[a][t] =
                    ExpectedMomentum(call.args[1], call.args[2], a, t)
              /\ t <= call.args[2] => outcome.value.data[a][t].nan

\* C4: calculate_returns yields price[t] / price[t-1] - 1 in every row after
\* the first and NaN in the first row, which is the only all-NaN row.
C4_ReturnFormula ==
    Done("calculate_returns") =>
        /\ outcome.kind = "return"
        /\ \A a \in AssetSet : \A t \in 1..Rows(call.args[1]) :
              /\ outcome.value.data[a][t] = ExpectedReturn(call.args[1], a, t)
              /\ outcome.value.data[a][t].nan <=> t = 1

\* C5: generate_signals maps each momentum cell to +1, -1 or 0 by its sign, 0
\* for a zero or missing momentum, so no cell of the Signal Table is missing.
C5_SignalMap ==
    Done("generate_signals") =>
        /\ outcome.kind = "return"
        /\ \A a \in AssetSet : \A t \in 1..Rows(call.args[1]) :
              /\ outcome.value.data[a][t] = ExpectedSignal(call.args[1].data[a][t])
              /\ ~outcome.value.data[a][t].nan

\* C6: for every window W, calculate_volatility yields the sample standard
\* deviation of return[t-W+1 .. t] times sqrt(252); the cell is NaN when the
\* window holds fewer than W returns, so the first W rows are NaN, and no
\* cell is negative.
C6_VolatilityFormula ==
    (Done("calculate_volatility") /\ call.args[2] >= 1) =>
        /\ outcome.kind = "return"
        /\ \A a \in AssetSet : \A t \in 1..Rows(call.args[1]) :
              LET W == call.args[2]
                  col == call.args[1].data[a]
                  cell == outcome.value.data[a][t]
              IN  /\ Cardinality(Observed(col, W, t)) < W => cell.nan
                  /\ t <= W => cell.nan
                  /\ ~cell.nan => cell.n >= 0
                  /\ (Cardinality(Observed(col, W, t)) = W /\ W >= 2) =>
                        IsAnnualizedRoot(cell, SampleVar(col, t - W + 1, t))

\* C7: calculate_strategy_returns appends exactly one column, 'TSMOM', the
\* unweighted mean of the row's asset strategy returns that are not NaN; it is
\* NaN exactly when every asset value of the row is NaN.
C7_TsmomIsRowMean ==
    Done("calculate_strategy_returns") =>
        /\ outcome.kind = "return"
        /\ outcome.value.columns = Assets \o <<"TSMOM">>
        /\ \A t \in 1..Rows(call.args[2]) :
              LET row == [i \in 1..Len(Assets) |-> outcome.value.data[Assets[i]][t]]
                  kept == SelectSeq(row, LAMBDA x : ~x.nan)
                  mean == outcome.value.data["TSMOM"][t]
              IN  IF kept = <<>> THEN mean.nan
                  ELSE mean = RMean(kept, 1, Len(kept))

\* C8: calculate_performance drops the NaN of its input, then returns a dict
\* with exactly the keys annualized_return = mean * 252,
\* annualized_volatility = sample std * sqrt(252) and
\* sharpe_ratio = annualized_return / annualized_volatility.
C8_PerformanceFormula ==
    Done("calculate_performance") =>
        /\ outcome.kind = "return"
        /\ outcome.value.type = "dict"
        /\ DOMAIN outcome.value.items = PerformanceKeys
        /\ LET r == DropNa(call.args[1])
               N == Len(r)
               ar == outcome.value.items["annualized_return"]
               av == outcome.value.items["annualized_volatility"]
               sr == outcome.value.items["sharpe_ratio"]
           IN  /\ N >= 1 => ar = RMul(RMean(r, 1, N), Rat(TradingDays, 1))
               /\ N >= 2 => IsAnnualizedRoot(av, SampleVar(r, 1, N))
               /\ (N >= 2 /\ av.n # 0) => (~sr.nan /\ RMul(sr, av) = ar)

\* C9: for any lookback, the outputs of calculate_returns, calculate_momentum,
\* generate_signals and calculate_volatility have the index and the columns, in
\* order, of the table they are computed from; the output of
\* calculate_strategy_returns has that index and one column more.
C9_ShapePreserved ==
    /\ (pc = "done" /\ call.fn \in ShapePreserving /\ ValidCall) =>
          /\ outcome.kind = "return"
          /\ outcome.value.index = call.args[1].index
          /\ outcome.value.columns = call.args[1].columns
          /\ \A c \in DOMAIN outcome.value.data :
                Len(outcome.value.data[c]) = Rows(call.args[1])
    /\ Done("calculate_strategy_returns") =>
          /\ outcome.kind = "return"
          /\ outcome.value.index = call.args[2].index
          /\ Len(outcome.value.columns) = Len(call.args[2].columns) + 1

StageOrder ==
    <<"read_data", "calculate_returns", "calculate_momentum", "generate_signals",
      "calculate_volatility", "calculate_strategy_returns", "calculate_performance">>

Params == {"lookback_days", "data_path"}

MetricLabels == {"Annualized Return", "Annualized Volatility", "Sharpe Ratio"}

MetricLines == {i \in 1..Len(stdout) : stdout[i].text \in MetricLabels}

\* C11: if a stage called by run_pipeline raises, no later stage is started,
\* run_pipeline returns no performance mapping, the error leaves run_pipeline
\* and main uncaught, and main prints none of the three metric lines; the
\* metric lines are printed only after run_pipeline has returned.
C11_ErrorPropagates ==
    /\ \A i \in 1..Len(started) :
          started[i].out.kind = "raise" =>
              /\ i = Len(started)
              /\ pc \in {"finished", "exit"}
              /\ outcome = started[i].out
              /\ MetricLines = {}
    /\ MetricLines # {} =>
          /\ pc = "exit"
          /\ entry = "main"
          /\ Len(started) = Len(Stmts)
          /\ \A i \in 1..Len(started) : started[i].out.kind = "return"

\* main has ended with the exception its first stage raised, having printed
\* the header only.
C11_Witness ==
    /\ pc = "exit"
    /\ entry = "main"
    /\ Len(started) = 1
    /\ started[1].out.kind = "raise"
    /\ outcome = started[1].out
    /\ Len(stdout) = 2
    /\ MetricLines = {}

\* A float that is +inf or -inf: a quotient by zero.
IsInf(x) == ~x.nan /\ x.d = 0

IsZero(x) == ~x.nan /\ x.d # 0 /\ x.n = 0

\* C12: where volatility[t-1] is zero, strategy_return[t] is NaN and not an
\* infinite number: no row of the Strategy Return Table whose cells are all
\* present holds an infinite value.
C12_ZeroVolatilityIsMissing ==
    Done("calculate_strategy_returns") =>
        /\ outcome.kind = "return"
        /\ \A a \in AssetSet : \A t \in 2..Rows(call.args[2]) :
              IsZero(call.args[3].data[a][t - 1]) => outcome.value.data[a][t].nan
        /\ \A t \in 1..Rows(call.args[2]) :
              (\A c \in DOMAIN outcome.value.data : ~outcome.value.data[c][t].nan) =>
                  \A c \in DOMAIN outcome.value.data : ~IsInf(outcome.value.data[c][t])

\* An invocation with a lookback or window of 0 or less has ended.
NonPositiveLookbackEnded ==
    \/ /\ pc = "done"
       /\ call.fn \in {"calculate_momentum", "calculate_volatility"}
       /\ call.args[2] <= 0
    \/ /\ pc = "finished" \/ pc = "exit"
       /\ entry \in {"run_pipeline", "main"}
       /\ call.args[1] <= 0

\* C13: a lookback or window length of 0 or less, passed to run_pipeline, to
\* calculate_momentum or calculate_volatility, or given as --lookback_days, is
\* rejected with a ConfigError that reaches the caller, and no stage computes
\* a result from it.
C13_NonPositiveLookbackRejected ==
    NonPositiveLookbackEnded =>
        /\ outcome.kind = "raise"
        /\ outcome.exc = "ConfigError"
        /\ \A i \in 1..Len(started) :
              "lookback_days" \in started[i].reads => started[i].out.kind = "raise"

\* The i-th argument of the statement of run_pipeline that calls fn.
ArgOf(fn, i) == Stmts[CHOOSE k \in 1..Len(Stmts) : Stmts[k].fn = fn].args[i]

====
